---- MODULE Spec2Model ----
(***************************************************************************)
(* Model of business_verification_dashbaord.py: the field cleaning done by  *)
(* clean_phone and load_data, and one pass of the dashboard script (load,   *)
(* initial checks, sidebar filters, filter, de-duplication, metrics and the *)
(* "no unique submissions" analysis).                                       *)
(*                                                                          *)
(* A Python str is modelled as a sequence of one-character strings, so that *)
(* strip / replace / startswith / title / upper are computed character by   *)
(* character.  RSQUO stands for the single character U+2019 (right single   *)
(* quotation mark).                                                         *)
(***************************************************************************)
EXTENDS Integers, Sequences, FiniteSets, TLC

VARIABLES
    inp,        \* field-cleaning run: the raw cell [kind, s, ref]
    npc,        \* field-cleaning run: "in" | "once" | "twice" | "off"
    out,        \* result of the cleaning function on inp.s
    out2,       \* result of clean_phone applied to out
    source,     \* what pd.read_csv(url) yields: [ok, rows]
    pc,         \* position of the script: "start","loaded","done","stopped","off"
    fetches,    \* number of pd.read_csv calls made in this pass
    df_raw,     \* DataFrame returned by load_data (sequence of rows)
    messages,   \* st.error / st.warning calls made so far
    date_range, \* value of the date_input widget (tuple of 0, 1 or 2 days)
    selected_counties,          \* value of the multiselect widget
    filtered_df,
    deduplicated_filtered_df,
    total_filtered_rows,
    unique_filtered_rows,
    no_submission_counties,
    rendered    \* sections of the page produced so far

normVars == <<inp, npc, out, out2>>
dashVars == <<source, pc, fetches, df_raw, messages, date_range, selected_counties,
              filtered_df, deduplicated_filtered_df, total_filtered_rows,
              unique_filtered_rows, no_submission_counties, rendered>>
vars == <<inp, npc, out, out2, source, pc, fetches, df_raw, messages, date_range,
          selected_counties, filtered_df, deduplicated_filtered_df,
          total_filtered_rows, unique_filtered_rows, no_submission_counties, rendered>>

----------------------------------------------------------------------------
(* Bounds *)

\* longest free prefix of a raw phone cell
MaxPre == 3
\* most filler digits appended to the prefix of a raw phone cell
MaxFill == 9
\* longest raw ID cell of the field-cleaning run
MaxIdLen == 4
\* most rows in the fetched sheet
MaxRows == 3

----------------------------------------------------------------------------
(* Characters and Python str methods *)

RSQUO == "U+2019"

\* characters str.strip() removes (space and tab stand for Python whitespace)
Whitespace == {" ", "\t"}

Lowers == <<"a","b","c","d","e","f","g","h","i","j","k","l","m",
            "n","o","p","q","r","s","t","u","v","w","x","y","z">>
Uppers == <<"A","B","C","D","E","F","G","H","I","J","K","L","M",
            "N","O","P","Q","R","S","T","U","V","W","X","Y","Z">>
Digits == {"0","1","2","3","4","5","6","7","8","9"}

IsLower(c) == \E i \in 1..26 : Lowers[i] = c
IsUpper(c) == \E i \in 1..26 : Uppers[i] = c
IsCased(c) == IsLower(c) \/ IsUpper(c)
ToUpper(c) == IF IsLower(c) THEN Uppers[CHOOSE i \in 1..26 : Lowers[i] = c] ELSE c
ToLower(c) == IF IsUpper(c) THEN Lowers[CHOOSE i \in 1..26 : Uppers[i] = c] ELSE c

RECURSIVE LStrip(_)
LStrip(s) == IF s # <<>> /\ Head(s) \in Whitespace THEN LStrip(Tail(s)) ELSE s

RECURSIVE RStrip(_)
RStrip(s) == IF s # <<>> /\ s[Len(s)] \in Whitespace
             THEN RStrip(SubSeq(s, 1, Len(s) - 1)) ELSE s

\* str.strip()
Strip(s) == RStrip(LStrip(s))

\* str.replace(c, "") for a one-character c
Remove(s, c) == SelectSeq(s, LAMBDA x : x # c)

\* str.startswith(c) for a one-character c
StartsWith(s, c) == Len(s) >= 1 /\ s[1] = c

\* str.upper()
Upper(s) == [i \in 1..Len(s) |-> ToUpper(s[i])]

\* str.lower(), used only to build spelling variants of the inputs
Lower(s) == [i \in 1..Len(s) |-> ToLower(s[i])]

\* str.title(): a cased character is upper-cased when the character before it
\* is uncased (or it is the first), lower-cased otherwise
Title(s) == [i \in 1..Len(s) |->
               IF i > 1 /\ IsCased(s[i - 1]) THEN ToLower(s[i]) ELSE ToUpper(s[i])]

----------------------------------------------------------------------------
(* clean_phone and the column cleaning of load_data *)

CountryCode == <<"2","5","4">>

\* length of a local number 7xx xxx xxx
LocalLen == 9

\* line 22: strip, then drop " ", "+" and "-"
Cleaned(phone) == Remove(Remove(Remove(Strip(phone), " "), "+"), "-")

\* the "0" branch keeps the trunk prefix
clean_phone_keeps_zero(phone) ==
    LET p == Cleaned(phone) IN
    IF StartsWith(p, "0") THEN CountryCode \o p
    ELSE IF StartsWith(p, "7") /\ Len(p) = LocalLen THEN CountryCode \o p
    ELSE p

\* the "7" branch without its length test
clean_phone_any_length(phone) ==
    LET p == Cleaned(phone) IN
    IF StartsWith(p, "0") THEN CountryCode \o Tail(p)
    ELSE IF StartsWith(p, "7") THEN CountryCode \o p
    ELSE p

clean_phone(phone) ==
    LET p == Cleaned(phone) IN
    IF StartsWith(p, "0") THEN CountryCode \o Tail(p)
    ELSE IF StartsWith(p, "7") /\ Len(p) = LocalLen THEN CountryCode \o p
    ELSE p

\* df['County'].astype(str).str.strip().str.title()
NormalizeCounty(s) == Title(Strip(s))

\* df['Verified ID Number'].astype(str).str.strip().str.upper()
NormalizeId(s) == Upper(Strip(s))

all_counties_47 == <<
    <<"M","o","m","b","a","s","a">>,
    <<"K","w","a","l","e">>,
    <<"K","i","l","i","f","i">>,
    <<"T","a","n","a"," ","R","i","v","e","r">>,
    <<"L","a","m","u">>,
    <<"T","a","i","t","a"," ","T","a","v","e","t","a">>,
    <<"G","a","r","i","s","s","a">>,
    <<"W","a","j","i","r">>,
    <<"M","a","n","d","e","r","a">>,
    <<"M","a","r","s","a","b","i","t">>,
    <<"I","s","i","o","l","o">>,
    <<"M","e","r","u">>,
    <<"T","h","a","r","a","k","a"," ","N","i","t","h","i">>,
    <<"E","m","b","u">>,
    <<"K","i","t","u","i">>,
    <<"M","a","c","h","a","k","o","s">>,
    <<"M","a","k","u","e","n","i">>,
    <<"N","y","a","n","d","a","r","u","a">>,
    <<"N","y","e","r","i">>,
    <<"K","i","r","i","n","y","a","g","a">>,
    <<"M","u","r","a","n","g","'","a">>,
    <<"K","i","a","m","b","u">>,
    <<"T","u","r","k","a","n","a">>,
    <<"W","e","s","t"," ","P","o","k","o","t">>,
    <<"S","a","m","b","u","r","u">>,
    <<"T","r","a","n","s"," ","N","z","o","i","a">>,
    <<"U","a","s","i","n"," ","G","i","s","h","u">>,
    <<"E","l","g","e","y","o"," ","M","a","r","a","k","w","e","t">>,
    <<"N","a","n","d","i">>,
    <<"B","a","r","i","n","g","o">>,
    <<"L","a","i","k","i","p","i","a">>,
    <<"N","a","k","u","r","u">>,
    <<"N","a","r","o","k">>,
    <<"K","a","j","i","a","d","o">>,
    <<"K","e","r","i","c","h","o">>,
    <<"B","o","m","e","t">>,
    <<"K","a","k","a","m","e","g","a">>,
    <<"V","i","h","i","g","a">>,
    <<"B","u","n","g","o","m","a">>,
    <<"B","u","s","i","a">>,
    <<"S","i","a","y","a">>,
    <<"K","i","s","u","m","u">>,
    <<"H","o","m","a"," ","B","a","y">>,
    <<"M","i","g","o","r","i">>,
    <<"K","i","s","i","i">>,
    <<"N","y","a","m","i","r","a">>,
    <<"N","a","i","r","o","b","i">>
>>

----------------------------------------------------------------------------
(* Raw cells of the field-cleaning run *)

RECURSIVE SeqsUpTo(_, _)
SeqsUpTo(A, n) == IF n = 0 THEN {<<>>}
                  ELSE LET S == SeqsUpTo(A, n - 1) IN
                       S \cup {Append(s, a) : s \in {t \in S : Len(t) = n - 1}, a \in A}

PhoneAlphabet == {"0", "1", "2", "4", "5", "7", " ", "\t", "+", "-"}

Fill(k) == [i \in 1..k |-> "3"]

PhoneInputs == {pre \o Fill(k) : pre \in SeqsUpTo(PhoneAlphabet, MaxPre), k \in 0..MaxFill}

IdAlphabet == {"1", "0", ".", "a", " "}

IdInputs == SeqsUpTo(IdAlphabet, MaxIdLen)

\* the apostrophe written with the typographic glyph
Curly(s) == [i \in 1..Len(s) |-> IF s[i] = "'" THEN RSQUO ELSE s[i]]

Pad(s, l, r) == [i \in 1..l |-> " "] \o s \o [i \in 1..r |-> " "]

\* the spellings of a reference county that differ from it only in letter
\* case, surrounding spaces or apostrophe glyph
Spellings(c) == {Pad(g, l, r) : g \in {c, Lower(c), Upper(c),
                                       Curly(c), Curly(Lower(c)), Curly(Upper(c))},
                                l \in 0..1, r \in 0..1}

NormInputs ==
    {[kind |-> "phone", s |-> p, ref |-> 0] : p \in PhoneInputs}
    \cup {[kind |-> "id", s |-> i, ref |-> 0] : i \in IdInputs}
    \cup UNION {{[kind |-> "county", s |-> v, ref |-> k] : v \in Spellings(all_counties_47[k])}
                : k \in 1..Len(all_counties_47)}

----------------------------------------------------------------------------
(* The fetched sheet *)

\* Timestamp cells: 0 is a cell pd.to_datetime cannot parse, d >= 1 a cell
\* that parses to a time on day d
RawTimestamps == {0, 1, 2}

NaT == 0

\* pd.to_datetime(..., errors='coerce'), at the granularity of days
ToDatetime(t) == IF t >= 1 THEN t ELSE NaT

RawCounties == { <<"n","a","i","r","o","b","i"," ">>,
                 <<" ","m","u","r","a","n","g","'","a">> }

\* (ID cell, phone cell) of the registrants that appear in the sheet.  The ID
\* cells are not numbers, so pandas reads the column as text; an all-digit
\* phone column read as integers gives the same cleaned phones.
RawIdentities ==
    { << <<" ","a","1","2">>, <<"0","7","1","2","3","4","5","6","7","8">> >>,
      << <<" ","a","1","2">>, <<"7","1","2","3","4","5","6","7","9">> >>,
      << <<"b","7">>,         <<"0","7","1","2","3","4","5","6","7","8">> >> }

\* a row whose Timestamp does not parse is dropped (line 46) before its County
\* is used anywhere, so such rows are drawn with one County only
RawRows == {r \in {[Timestamp |-> t, County |-> c, Id |-> k[1], Phone |-> k[2]] :
                      t \in RawTimestamps, c \in RawCounties, k \in RawIdentities} :
               (ToDatetime(r.Timestamp) = NaT) => r.County = <<"n","a","i","r","o","b","i"," ">>}

\* the sheets pd.read_csv can return, as sequences of rows of text cells
Sheets == SeqsUpTo(RawRows, MaxRows)

\* ok = FALSE: pd.read_csv or a column access raises
Sources == [ok : BOOLEAN, rows : Sheets]

----------------------------------------------------------------------------
(* load_data *)

Key(r) == <<r.Id, r.Phone>>

\* keep='last' in place of keep='first'
DuplicatedKeepLast(df, i) == \E j \in (i + 1)..Len(df) : Key(df[j]) = Key(df[i])

\* DataFrame.duplicated(subset=[ID, phone], keep='first')
Duplicated(df, i) == \E j \in 1..(i - 1) : Key(df[j]) = Key(df[i])

\* lines 44-50: one row after the column conversions; idx is the row label
CleanRow(rows, i) ==
    [idx       |-> i,
     Timestamp |-> ToDatetime(rows[i].Timestamp),
     County    |-> NormalizeCounty(rows[i].County),
     Id        |-> NormalizeId(rows[i].Id),
     Phone     |-> clean_phone(rows[i].Phone)]

\* line 46: df.dropna(subset=['Timestamp'])
DropNaT(df) == SelectSeq(df, LAMBDA r : r.Timestamp # NaT)

\* line 53: the 'Is Duplicate (Global)' column
TagDuplicates(df) ==
    [i \in 1..Len(df) |->
        [idx |-> df[i].idx, Timestamp |-> df[i].Timestamp, County |-> df[i].County,
         Id |-> df[i].Id, Phone |-> df[i].Phone, IsDuplicate |-> Duplicated(df, i)]]

\* the except branch hands back the rows instead of an empty frame
load_data_partial(src) ==
    IF src.rows = <<>> THEN <<>>
    ELSE TagDuplicates(DropNaT([i \in 1..Len(src.rows) |-> CleanRow(src.rows, i)]))

\* lines 36-58: the value load_data returns
load_data(src) ==
    IF ~src.ok THEN <<>>
    ELSE IF src.rows = <<>> THEN <<>>
    ELSE TagDuplicates(DropNaT([i \in 1..Len(src.rows) |-> CleanRow(src.rows, i)]))

----------------------------------------------------------------------------
(* Filters, de-duplication and the no-submission analysis *)

\* 2025-03-01 as a day number
DefaultStartDay == 1

Max(a, b) == IF a >= b THEN a ELSE b

Days(df) == {df[i].Timestamp : i \in 1..Len(df)}
MinDay(df) == CHOOSE d \in Days(df) : \A e \in Days(df) : d <= e
MaxDayOf(df) == CHOOSE d \in Days(df) : \A e \in Days(df) : d >= e

\* lines 102: the options of the multiselect
counties(df) == {df[i].County : i \in 1..Len(df)}

\* lines 83-88: the tuples the date_input widget can return
DateRanges(df) ==
    {<<>>}
    \cup {<<d>> : d \in MinDay(df)..MaxDayOf(df)}
    \cup {<<d, e>> : d \in MinDay(df)..MaxDayOf(df), e \in MinDay(df)..MaxDayOf(df)}

\* lines 91-97
start_date(df, dr) == IF Len(dr) = 2 THEN dr[1]
                      ELSE IF Len(dr) = 1 THEN dr[1]
                      ELSE Max(DefaultStartDay, MinDay(df))
end_date(df, dr) == IF Len(dr) = 2 THEN dr[2]
                    ELSE IF Len(dr) = 1 THEN dr[1]
                    ELSE MaxDayOf(df)

\* lines 110-114, with filter_start_dt the first and filter_end_dt the last
\* instant of the chosen days
Filter(df, start, end, sel) ==
    SelectSeq(df, LAMBDA r : /\ r.Timestamp >= start
                             /\ r.Timestamp <= end
                             /\ r.County \in sel)

\* lines 119-122: drop_duplicates(subset=[ID, phone], keep='first'), as one
\* scan that remembers the keys already seen
RECURSIVE DropDuplicatesFrom(_, _, _)
DropDuplicatesFrom(df, i, seen) ==
    IF i > Len(df) THEN <<>>
    ELSE IF Key(df[i]) \in seen THEN DropDuplicatesFrom(df, i + 1, seen)
    ELSE <<df[i]>> \o DropDuplicatesFrom(df, i + 1, seen \cup {Key(df[i])})

\* keep='last' in place of keep='first'
DropDuplicatesKeepLast(df) ==
    SelectSeq(df, LAMBDA r : \A j \in 1..Len(df) :
                     (Key(df[j]) = Key(r)) => df[j].idx <= r.idx)

\* keep=False in place of keep='first'
DropDuplicatesKeepNone(df) ==
    SelectSeq(df, LAMBDA r : \A j \in 1..Len(df) :
                     (Key(df[j]) = Key(r)) => df[j].idx = r.idx)

DropDuplicates(df) == DropDuplicatesFrom(df, 1, {})

\* line 192
active_counties_in_filter(dedup) == {dedup[i].County : i \in 1..Len(dedup)}

\* line 196 left out: every reference county is taken as relevant
NoSubmissionCountiesUnselected(sel, dedup) ==
    SelectSeq(all_counties_47, LAMBDA c : c \notin active_counties_in_filter(dedup))

\* lines 196-199
NoSubmissionCounties(sel, dedup) ==
    SelectSeq(all_counties_47,
              LAMBDA c : c \in sel /\ c \notin active_counties_in_filter(dedup))

\* the sections the pass produces after the sidebar
Sections(filtered, dedup) ==
    {"metrics", "county_breakdown", "trend", "no_submission_analysis", "full_rows"}
    \cup (IF filtered # <<>> THEN {"download_filtered"} ELSE {})
    \cup (IF dedup # <<>> THEN {"download_unique"} ELSE {})

----------------------------------------------------------------------------
(* One pass of the script *)

DashIdle ==
    /\ source = [ok |-> FALSE, rows |-> <<>>]
    /\ pc = "off"
    /\ fetches = 0
    /\ df_raw = <<>>
    /\ messages = {}
    /\ date_range = <<>>
    /\ selected_counties = {}
    /\ filtered_df = <<>>
    /\ deduplicated_filtered_df = <<>>
    /\ total_filtered_rows = 0
    /\ unique_filtered_rows = 0
    /\ no_submission_counties = <<>>
    /\ rendered = {}

NormIdle ==
    /\ inp = [kind |-> "none", s |-> <<>>, ref |-> 0]
    /\ npc = "off"
    /\ out = <<>>
    /\ out2 = <<>>

Init ==
    /\ NormIdle
    /\ source \in Sources
    /\ pc = "start"
    /\ fetches = 0
    /\ df_raw = <<>>
    /\ messages = {}
    /\ date_range = <<>>
    /\ selected_counties = {}
    /\ filtered_df = <<>>
    /\ deduplicated_filtered_df = <<>>
    /\ total_filtered_rows = 0
    /\ unique_filtered_rows = 0
    /\ no_submission_counties = <<>>
    /\ rendered = {}

\* line 61 with lines 31-58
LoadData ==
    /\ pc = "start"
    /\ fetches' = fetches + 1
    /\ df_raw' = load_data(source)
    /\ messages' = IF source.ok THEN messages ELSE messages \cup {"error: Error loading data"}
    /\ pc' = "loaded"
    /\ UNCHANGED <<source, date_range, selected_counties, filtered_df,
                   deduplicated_filtered_df, total_filtered_rows,
                   unique_filtered_rows, no_submission_counties, rendered>>
    /\ UNCHANGED normVars

\* lines 62-64
StopOnEmpty ==
    /\ pc = "loaded"
    /\ df_raw = <<>>
    /\ messages' = messages \cup {"warning: No data loaded"}
    /\ pc' = "stopped"
    /\ UNCHANGED <<source, fetches, df_raw, date_range, selected_counties, filtered_df,
                   deduplicated_filtered_df, total_filtered_rows,
                   unique_filtered_rows, no_submission_counties, rendered>>
    /\ UNCHANGED normVars

\* lines 66-245: the operator sets the two widgets (lines 83-107) and the
\* rest of the page is computed from them; the check of lines 67-69 always
\* passes, pd.to_datetime having made the Timestamp column a datetime column
RenderPass ==
    /\ pc = "loaded"
    /\ df_raw # <<>>
    /\ \E dr \in DateRanges(df_raw), sel \in SUBSET counties(df_raw) :
        \E f \in {Filter(df_raw, start_date(df_raw, dr), end_date(df_raw, dr), sel)} :
        \E d \in {DropDuplicates(f)} :
             /\ date_range' = dr
             /\ selected_counties' = sel
             /\ filtered_df' = f
             /\ deduplicated_filtered_df' = d
             /\ total_filtered_rows' = Len(f)
             /\ unique_filtered_rows' = Len(d)
             /\ no_submission_counties' = NoSubmissionCounties(sel, d)
             /\ rendered' = rendered \cup {"sidebar"} \cup Sections(f, d)
    /\ pc' = "done"
    /\ UNCHANGED <<source, fetches, df_raw, messages>>
    /\ UNCHANGED normVars

Next == LoadData \/ StopOnEmpty \/ RenderPass

Spec == Init /\ [][Next]_vars

----------------------------------------------------------------------------
(* The cleaning functions on their own *)

InitNorm ==
    /\ DashIdle
    /\ inp \in NormInputs
    /\ npc = "in"
    /\ out = <<>>
    /\ out2 = <<>>

\* line 50: clean_phone applied to a raw cell
CleanPhone ==
    /\ npc = "in"
    /\ inp.kind = "phone"
    /\ out' = clean_phone(inp.s)
    /\ npc' = "once"
    /\ UNCHANGED <<inp, out2>>
    /\ UNCHANGED dashVars

\* clean_phone applied to its own result
CleanPhoneAgain ==
    /\ npc = "once"
    /\ inp.kind = "phone"
    /\ out2' = clean_phone(out)
    /\ npc' = "twice"
    /\ UNCHANGED <<inp, out>>
    /\ UNCHANGED dashVars

\* line 49
CleanId ==
    /\ npc = "in"
    /\ inp.kind = "id"
    /\ out' = NormalizeId(inp.s)
    /\ npc' = "once"
    /\ UNCHANGED <<inp, out2>>
    /\ UNCHANGED dashVars

\* line 48
CleanCounty ==
    /\ npc = "in"
    /\ inp.kind = "county"
    /\ out' = NormalizeCounty(inp.s)
    /\ npc' = "once"
    /\ UNCHANGED <<inp, out2>>
    /\ UNCHANGED dashVars

NextNorm == CleanPhone \/ CleanPhoneAgain \/ CleanId \/ CleanCounty

SpecNorm == InitNorm /\ [][NextNorm]_vars

----------------------------------------------------------------------------
(* Properties of clean_phone (checked under SpecNorm) *)

IsPhoneRun == inp.kind = "phone" /\ npc \in {"once", "twice"}

AllDigits(s) == \A i \in 1..Len(s) : s[i] \in Digits

HasPrefix(s, p) == Len(s) >= Len(p) /\ SubSeq(s, 1, Len(p)) = p

SeparatorFree(s) == \A i \in 1..Len(s) : s[i] \notin (Whitespace \cup {"+", "-"})

\* C1: clean_phone is idempotent, clean_phone(clean_phone(p)) = clean_phone(p)
\* for every raw phone string p, and a separator-free string that starts
\* with "254" is returned unchanged.
C1_Idempotent ==
    /\ (inp.kind = "phone" /\ npc = "twice") => out2 = out
    /\ (IsPhoneRun /\ HasPrefix(inp.s, CountryCode) /\ SeparatorFree(inp.s)) => out = inp.s

\* C2 as stated: whenever the cleaned form starts with "7" or "1", the result
\* is "254" followed by the cleaned form.
C2_BarePrefixAlwaysPrepended ==
    (IsPhoneRun /\ (StartsWith(Cleaned(inp.s), "7") \/ StartsWith(Cleaned(inp.s), "1")))
        => out = CountryCode \o Cleaned(inp.s)

\* C2, amended: when the cleaned form starts with "7" and is exactly 9
\* characters long the result is "254" followed by the cleaned form; when it
\* starts with "1", or starts with "7" and has another length, the result is
\* the cleaned form itself.
C2_NineDigitSevenPrepended ==
    IsPhoneRun =>
        LET c == Cleaned(inp.s) IN
        /\ (StartsWith(c, "7") /\ Len(c) = 9) => out = CountryCode \o c
        /\ (StartsWith(c, "1") \/ (StartsWith(c, "7") /\ Len(c) # 9)) => out = c

C2_Witness ==
    /\ IsPhoneRun
    /\ StartsWith(Cleaned(inp.s), "7")
    /\ Len(Cleaned(inp.s)) = 9
    /\ inp.s # Cleaned(inp.s)
    /\ out = CountryCode \o Cleaned(inp.s)

\* C3: for every phone input p that starts with "0" and is otherwise numeric,
\* clean_phone(p) = "254" + p[1:], whatever the length of p.
C3_LeadingZeroReplaced ==
    (IsPhoneRun /\ StartsWith(inp.s, "0") /\ AllDigits(inp.s))
        => out = CountryCode \o Tail(inp.s)

\* a ten-digit trunk-prefixed number whose remainder is a local 7xx number
C3_Witness ==
    /\ IsPhoneRun
    /\ AllDigits(inp.s)
    /\ Len(inp.s) = 10
    /\ HasPrefix(inp.s, <<"0", "7">>)
    /\ out = CountryCode \o Tail(inp.s)

----------------------------------------------------------------------------
(* Properties of the county cleaning (checked under SpecNorm) *)

\* C5: every spelling of a reference county that differs from it only in
\* letter case, surrounding spaces or apostrophe glyph is normalized to the
\* exact entry of the 47-county reference list.
C5_SpellingsMapToReference ==
    (inp.kind = "county" /\ npc = "once") => out = all_counties_47[inp.ref]

----------------------------------------------------------------------------
(* Properties of the ID cleaning (checked under SpecNorm) *)

\* s is digits followed by ".0"
IsDotZero(s) ==
    /\ Len(s) >= 3
    /\ SubSeq(s, Len(s) - 1, Len(s)) = <<".", "0">>
    /\ AllDigits(SubSeq(s, 1, Len(s) - 2))

\* the integer form of an ID cell: digits with a trailing ".0" removed
IntegerForm(s) == IF IsDotZero(Strip(s)) THEN SubSeq(Strip(s), 1, Len(Strip(s)) - 2)
                  ELSE Strip(s)

\* C4: an ID cell that is a number with a trailing ".0" is normalized to its
\* integer form ("12.0" becomes "12"), so that it gets the same normalized
\* ID, and with the same phone the same de-duplication key, as the cell
\* holding the integer form.
C4_TrailingZeroDropped ==
    (inp.kind = "id" /\ npc = "once" /\ IsDotZero(Strip(inp.s))) =>
        /\ out = IntegerForm(inp.s)
        /\ out = NormalizeId(IntegerForm(inp.s))

----------------------------------------------------------------------------
(* Properties of one pass of the script (checked under Spec) *)

Loaded == pc \in {"loaded", "done", "stopped"}

Range(s) == {s[i] : i \in 1..Len(s)}

\* the raw sheet row a DataFrame row was made from
RawOf(r) == source.rows[r.idx]

FirstOfItsKey(df, i) == \A j \in 1..Len(df) : (df[j].idx < df[i].idx) => Key(df[j]) # Key(df[i])

\* C6: the de-duplicated set is exactly the subsequence of the filtered set
\* made of the first record, by position, of each distinct (ID, phone) key:
\* one record per key, in the original relative order, chosen by position and
\* not by timestamp.
C6_FirstPerKeyInOrder ==
    pc = "done" =>
        LET f == filtered_df
            d == deduplicated_filtered_df
        IN /\ \A k \in 1..Len(d) : \E i \in 1..Len(f) : f[i] = d[k] /\ FirstOfItsKey(f, i)
           /\ \A i \in 1..Len(f) : FirstOfItsKey(f, i) => f[i] \in Range(d)
           /\ \A k, l \in 1..Len(d) : (k < l) => d[k].idx < d[l].idx
           /\ \A k, l \in 1..Len(d) : (k # l) => Key(d[k]) # Key(d[l])
           /\ {Key(f[i]) : i \in 1..Len(f)} = {Key(d[k]) : k \in 1..Len(d)}

\* a duplicate is dropped although its timestamp is earlier than that of the
\* kept record, and two records are kept
C6_Witness ==
    /\ pc = "done"
    /\ Len(deduplicated_filtered_df) >= 2
    /\ \E i, j \in 1..Len(filtered_df) :
          /\ i < j
          /\ Key(filtered_df[i]) = Key(filtered_df[j])
          /\ filtered_df[i].Timestamp > filtered_df[j].Timestamp
          /\ filtered_df[i] \in Range(deduplicated_filtered_df)
          /\ filtered_df[j] \notin Range(deduplicated_filtered_df)

\* the key load_data gives a raw sheet row
CleanKey(raw) == <<NormalizeId(raw.Id), clean_phone(raw.Phone)>>

\* C7 as stated: every record of the input carries a flag that is true
\* exactly when an earlier record of the input has the same key, and no
\* record is removed.
C7_EveryInputRecordFlagged ==
    (Loaded /\ source.ok) =>
        \A i \in 1..Len(source.rows) :
            \E k \in 1..Len(df_raw) :
                /\ df_raw[k].idx = i
                /\ df_raw[k].IsDuplicate <=>
                      (\E j \in 1..(i - 1) : CleanKey(source.rows[j]) = CleanKey(source.rows[i]))

Parsable(i) == ToDatetime(source.rows[i].Timestamp) # NaT

\* the rows of df_raw that pass the date and county filters now set
InFilterRows ==
    LET lo == start_date(df_raw, date_range)
        hi == end_date(df_raw, date_range)
    IN {r \in Range(df_raw) :
           r.Timestamp >= lo /\ r.Timestamp <= hi /\ r.County \in selected_counties}

\* C7, amended: the records load_data returns are the input records whose
\* Timestamp parses, in input order; each carries a flag that is true exactly
\* when an earlier record with a parsable Timestamp has the same key;
\* flagging removes none of them, and flagged records are counted in the
\* filtered total.
C7_ParsableRecordsFlagged ==
    /\ (pc = "loaded" /\ source.ok) =>
          /\ {df_raw[k].idx : k \in 1..Len(df_raw)} = {i \in 1..Len(source.rows) : Parsable(i)}
          /\ \A k, l \in 1..Len(df_raw) : (k < l) => df_raw[k].idx < df_raw[l].idx
          /\ \A k \in 1..Len(df_raw) :
                df_raw[k].IsDuplicate <=>
                   (\E j \in 1..(df_raw[k].idx - 1) :
                       /\ Parsable(j)
                       /\ CleanKey(source.rows[j]) = CleanKey(RawOf(df_raw[k])))
    /\ (pc = "done") =>
          /\ Range(filtered_df) = InFilterRows
          /\ total_filtered_rows = Cardinality(InFilterRows)
          /\ total_filtered_rows >= Cardinality({r \in InFilterRows : r.IsDuplicate})

\* a flagged record is in the filtered set and a record with an unparsable
\* Timestamp was dropped
C7_Witness ==
    /\ pc = "done"
    /\ \E r \in Range(filtered_df) : r.IsDuplicate
    /\ \E i \in 1..Len(source.rows) : ~Parsable(i)
    /\ total_filtered_rows >= 2

\* C8: when the fetch or parse fails inside load_data, an error message is
\* shown, load_data yields an empty dataset read once, and the pass stops
\* before any filter, metric, table or download is produced.
C8_FetchErrorStopsPass ==
    (~source.ok /\ pc # "start") =>
        /\ pc \in {"loaded", "stopped"}
        /\ "error: Error loading data" \in messages
        /\ df_raw = <<>>
        /\ fetches = 1
        /\ rendered = {}
        /\ filtered_df = <<>> /\ deduplicated_filtered_df = <<>>
        /\ total_filtered_rows = 0 /\ unique_filtered_rows = 0
        /\ ~ENABLED RenderPass
        /\ ~ENABLED LoadData
        /\ (pc = "stopped") => ("warning: No data loaded" \in messages /\ ~ENABLED Next)

\* the source failed after rows had been read, and the pass has stopped
C8_Witness ==
    /\ ~source.ok
    /\ source.rows # <<>>
    /\ pc = "stopped"

\* C9: every row of the filtered set whose global flag is false is kept in
\* the filtered-then-deduplicated set, so the unique count is at least the
\* number of unflagged filtered rows and at most the filtered total.
C9_UnflaggedRowsKept ==
    pc = "done" =>
        /\ \A r \in Range(filtered_df) : ~r.IsDuplicate => r \in Range(deduplicated_filtered_df)
        /\ unique_filtered_rows >= Cardinality({r \in Range(filtered_df) : ~r.IsDuplicate})
        /\ unique_filtered_rows <= total_filtered_rows

\* a globally flagged row is kept because the first occurrence of its key
\* lies outside the filter, next to a row dropped as a duplicate
C9_Witness ==
    /\ pc = "done"
    /\ \E r \in Range(deduplicated_filtered_df) : r.IsDuplicate
    /\ unique_filtered_rows < total_filtered_rows

\* C10: a county is listed under "no unique submissions" only if it is in the
\* 47-county reference list, is selected in the sidebar and has no row in the
\* filtered-then-deduplicated set; a reference county with no row in the
\* loaded dataset is never listed (every listed county has a row in df_raw).
C10_ListedOnlyIfSelectedAndEmpty ==
    pc = "done" =>
        \A k \in 1..Len(no_submission_counties) :
            LET c == no_submission_counties[k] IN
            /\ \E i \in 1..Len(all_counties_47) : all_counties_47[i] = c
            /\ c \in selected_counties
            /\ \A r \in 1..Len(deduplicated_filtered_df) : deduplicated_filtered_df[r].County # c
            /\ \E r \in 1..Len(df_raw) : df_raw[r].County = c

\* a reference county is listed while a selected county outside the
\* reference list, also without unique rows, is not
C10_Witness ==
    /\ pc = "done"
    /\ no_submission_counties # <<>>
    /\ \E c \in selected_counties :
          /\ \A i \in 1..Len(all_counties_47) : all_counties_47[i] # c
          /\ \A r \in 1..Len(deduplicated_filtered_df) : deduplicated_filtered_df[r].County # c

====
